---------------------------- MODULE Spec2Model ----------------------------
(***************************************************************************)
(* Model of certomancer's WSGI animator                                    *)
(* (src/certomancer/integrations/animator.py): the route table built by    *)
(* service_rules, Animator.dispatch with its four handlers, and the        *)
(* LazyAnimator wrapper that binds one Animator on the first request.      *)
(*                                                                         *)
(* URL paths are sequences of tokens: "/" and "." are the two separator    *)
(* tokens, every other token is a run of characters holding neither.       *)
(* Python objects are records; a method that takes self returns the        *)
(* object as it is after the call in the field "self", so that a write to  *)
(* an attribute is visible to the specification.                           *)
(***************************************************************************)
EXTENDS Integers, Sequences, FiniteSets, TLC

VARIABLES
    pki,            \* the PKI architecture of this process (what get_pki_arch yields)
    env_ok,         \* os.environ holds the three variables and the config loads
    heap,           \* the Animator objects constructed so far, by identity 1..Len(heap)
    app_animator,   \* LazyAnimator.animator: None, or the identity of an Animator
    workload,       \* the requests the clients of this run send
    thr,            \* per request thread: position, request, result, collaborator calls
    served_by,      \* identities of the Animators that have served a request
    load_attempts,  \* executions of LazyAnimator._load that went past the None check
    load_failures   \* executions of LazyAnimator._load that raised

vars == <<pki, env_ok, heap, app_animator, workload, thr, served_by,
          load_attempts, load_failures>>

\* ------------------------------------------------------------------ bounds

NThreads == 2

MaxTime == 2

MaxAttempts == 3

MaxPerKind == 2

Threads == 1..NThreads

Times == 1..MaxTime

\* Python's None, and a value in a slot that may hold None: the slots of this
\* model that may hold None hold sequences.
None == << >>

Some(v) == << v >>

\* The exc field of an outcome that raised nothing.
Ok == "ok"

\* ------------------------------------------------------- ServiceType, Endpoint

ServiceType_OCSP == "ocsp"

ServiceType_CRL_REPO == "crl"

ServiceType_TSA == "tsa"

ServiceType_CERT_REPO == "certs"

Endpoint(service_type, label) == [service_type |-> service_type, label |-> label]

\* ------------------------------------------------------------ werkzeug rules

\* A rule string is a sequence of parts: a literal token, or a converter
\* placeholder <conv:arg> capturing a run of tokens under the name arg.
Lit(tok) == [conv |-> "lit", arg |-> tok]

Conv(conv, arg) == [conv |-> conv, arg |-> arg]

Lits(toks) == [i \in 1..Len(toks) |-> Lit(toks[i])]

NoDefaults == <<>>

\* werkzeug.routing.Rule: a rule whose methods hold GET also answers HEAD.
Rule(string, defaults, endpoint, methods) ==
    [rule |-> string, defaults |-> defaults, endpoint |-> endpoint,
     methods |-> IF "GET" \in methods THEN methods \cup {"HEAD"} ELSE methods]

ocsp_rule(ocsp_info) ==
    Rule(Lits(ocsp_info.internal_url), NoDefaults,
         Endpoint(ServiceType_OCSP, ocsp_info.label), {"POST"})

\* tsa_rule with the srv of the OCSP loop left in place.
tsa_rule_stale_srv(tsa_info) ==
    Rule(Lits(tsa_info.internal_url), NoDefaults,
         Endpoint(ServiceType_OCSP, tsa_info.label), {"POST"})

tsa_rule(tsa_info) ==
    Rule(Lits(tsa_info.internal_url), NoDefaults,
         Endpoint(ServiceType_TSA, tsa_info.label), {"POST"})

crl_rules(crl_repo) ==
    LET endpoint == Endpoint(ServiceType_CRL_REPO, crl_repo.label)
    IN << Rule(Lits(crl_repo.internal_url)
                 \o <<Lit("/"), Lit("latest"), Lit("."), Conv("default", "extension")>>,
               [crl_no |-> None], endpoint, {"GET"}),
          Rule(Lits(crl_repo.internal_url)
                 \o <<Lit("/"), Lit("archive-"), Conv("int", "crl_no"), Lit("."),
                      Conv("default", "extension")>>,
               NoDefaults, endpoint, {"GET"}) >>

\* cert_rules without the test of publish_issued.
cert_rules_always_issued(cert_repo) ==
    LET endpoint == Endpoint(ServiceType_CERT_REPO, cert_repo.label)
    IN << Rule(Lits(cert_repo.internal_url)
                 \o <<Lit("/"), Lit("ca"), Lit("."), Conv("default", "extension")>>,
               [cert_label |-> None], endpoint, {"GET"}),
          Rule(Lits(cert_repo.internal_url)
                 \o <<Lit("/"), Lit("issued"), Lit("/"),
                      Conv("label", "cert_label"), Lit("."),
                      Conv("default", "extension")>>,
               NoDefaults, endpoint, {"GET"}) >>

cert_rules(cert_repo) ==
    LET publish_issued == cert_repo.publish_issued_certs
        endpoint == Endpoint(ServiceType_CERT_REPO, cert_repo.label)
    IN << Rule(Lits(cert_repo.internal_url)
                 \o <<Lit("/"), Lit("ca"), Lit("."), Conv("default", "extension")>>,
               [cert_label |-> None], endpoint, {"GET"}) >>
       \o (IF publish_issued
           THEN << Rule(Lits(cert_repo.internal_url)
                          \o <<Lit("/"), Lit("issued"), Lit("/"),
                               Conv("label", "cert_label"), Lit("."),
                               Conv("default", "extension")>>,
                        NoDefaults, endpoint, {"GET"}) >>
           ELSE << >>)

\* The rules in the order the generator yields them: OCSP, TSA, CRL, certs.
service_rules(services) ==
    LET ocsp[i \in 0..Len(services.ocsp)] ==
            IF i = 0 THEN << >> ELSE Append(ocsp[i - 1], ocsp_rule(services.ocsp[i]))
        tsa[i \in 0..Len(services.tsa)] ==
            IF i = 0 THEN << >> ELSE Append(tsa[i - 1], tsa_rule(services.tsa[i]))
        crl[i \in 0..Len(services.crl)] ==
            IF i = 0 THEN << >> ELSE crl[i - 1] \o crl_rules(services.crl[i])
        certs[i \in 0..Len(services.certs)] ==
            IF i = 0 THEN << >> ELSE certs[i - 1] \o cert_rules(services.certs[i])
    IN ocsp[Len(services.ocsp)] \o tsa[Len(services.tsa)]
       \o crl[Len(services.crl)] \o certs[Len(services.certs)]

\* ------------------------------------------------------- converters, matching

IsDigit(tok) == \E n \in 0..9 : ToString(n) = tok

DigitValue(tok) == CHOOSE n \in 0..9 : ToString(n) = tok

\* Which tokens a converter's regex accepts: default [^/]+, int \d+,
\* LabelConverter [^./]+.
Accepts(conv, tok) ==
    CASE conv = "default" -> tok # "/"
      [] conv = "int" -> IsDigit(tok)
      [] conv = "label" -> tok # "/" /\ tok # "."

\* to_python: int() of the digits for the int converter, the text otherwise.
to_python(conv, toks) ==
    IF conv = "int"
    THEN LET v[i \in 0..Len(toks)] ==
                 IF i = 0 THEN 0 ELSE v[i - 1] * 10 + DigitValue(toks[i])
         IN Some(v[Len(toks)])
    ELSE toks

\* The captures under which the whole path matches the rule string.
MatchParts(parts, toks) ==
    LET M[i \in 1..(Len(parts) + 1), j \in 1..(Len(toks) + 1)] ==
            IF i > Len(parts)
            THEN IF j > Len(toks) THEN { << >> } ELSE {}
            ELSE IF parts[i].conv = "lit"
            THEN IF j <= Len(toks) /\ toks[j] = parts[i].arg
                 THEN M[i + 1, j + 1] ELSE {}
            ELSE UNION { { (parts[i].arg :> to_python(parts[i].conv, SubSeq(toks, j, k))) @@ b
                           : b \in M[i + 1, k + 1] }
                         : k \in { k \in j..Len(toks) :
                                     \A m \in j..k : Accepts(parts[i].conv, toks[m]) } }
    IN M[1, 1]

Return(v) == [exc |-> Ok, val |-> v]

Raise(e) == [exc |-> e, val |-> None]

\* match over rules that carry no methods: the first rule matching the path.
match_any_method(url_map, method, path) ==
    LET hits == { i \in 1..Len(url_map) : MatchParts(url_map[i].rule, path) # {} }
    IN IF hits # {}
       THEN LET i == CHOOSE i \in hits : \A k \in hits : i <= k
                captured == CHOOSE b \in MatchParts(url_map[i].rule, path) : TRUE
            IN Return([endpoint |-> url_map[i].endpoint,
                       values |-> url_map[i].defaults @@ captured])
       ELSE Raise("NotFound")

\* MapAdapter.match: the first rule matching the path whose methods hold the
\* request's method; MethodNotAllowed when rules match the path under other
\* methods only; NotFound when no rule matches the path.  Captured values are
\* updated with the rule's defaults.
match(url_map, method, path) ==
    LET hits == { i \in 1..Len(url_map) : MatchParts(url_map[i].rule, path) # {} }
        eligible == { i \in hits : method \in url_map[i].methods }
    IN IF eligible # {}
       THEN LET i == CHOOSE i \in eligible : \A k \in eligible : i <= k
                captured == CHOOSE b \in MatchParts(url_map[i].rule, path) : TRUE
            IN Return([endpoint |-> url_map[i].endpoint,
                       values |-> url_map[i].defaults @@ captured])
       ELSE IF hits # {} THEN Raise("MethodNotAllowed") ELSE Raise("NotFound")

\* ------------------------------------------------ the PKI-data collaborator

\* A collaborator call as the call log records it.
Called(fn, label, at, number, cert_label, outcome) ==
    [fn |-> fn, label |-> label, at_time |-> at, number |-> number,
     cert_label |-> cert_label, outcome |-> outcome]

\* ServiceRegistry.summon_responder(label, at_time)
summon_responder(pki_arch, label, at) ==
    IF pki_arch.fault = "not_found"
    THEN Raise("CertomancerObjectNotFoundError")
    ELSE Return([service |-> ServiceType_OCSP, label |-> label, at_time |-> at,
                 fault |-> pki_arch.fault])

\* ServiceRegistry.summon_timestamper(label, at_time)
summon_timestamper(pki_arch, label, at) ==
    IF pki_arch.fault = "not_found"
    THEN Raise("CertomancerObjectNotFoundError")
    ELSE Return([service |-> ServiceType_TSA, label |-> label, at_time |-> at,
                 fault |-> pki_arch.fault])

\* The responder's build_ocsp_response(req)
build_ocsp_response(ocsp_resp, req) ==
    IF ocsp_resp.fault = "service_error"
    THEN Raise("CertomancerServiceError")
    ELSE Return([asn1 |-> "OCSPResponse", label |-> ocsp_resp.label,
                 content |-> ocsp_resp.at_time])

\* The timestamper's request_tsa_response(req)
request_tsa_response(tsa, req) ==
    IF tsa.fault = "service_error"
    THEN Raise("CertomancerServiceError")
    ELSE Return([asn1 |-> "TimeStampResp", label |-> tsa.label,
                 content |-> tsa.at_time])

\* ServiceRegistry.get_crl(label, at_time=None, number=None): the CRL with
\* that number, or the CRL current at that time (CRL number n is the one
\* current at time n).
get_crl(pki_arch, label, at, number) ==
    IF pki_arch.fault = "not_found" THEN Raise("CertomancerObjectNotFoundError")
    ELSE IF pki_arch.fault = "service_error" THEN Raise("CertomancerServiceError")
    ELSE LET n == IF number # None THEN number[1] ELSE at[1]
         IN IF n \in pki_arch.crl_numbers
            THEN Return([asn1 |-> "CertificateList", label |-> label, content |-> n])
            ELSE Raise("CertomancerObjectNotFoundError")

\* The None that get_cert_from_repo returns for a certificate it does not have.
NoCertificate == [asn1 |-> "None", label |-> "", content |-> None]

\* ServiceRegistry.get_cert_from_repo(label, cert_label): the CA's own
\* certificate for cert_label None, an issued one by label, None when the
\* repository has no such certificate.
get_cert_from_repo(pki_arch, label, cert_label) ==
    IF pki_arch.fault = "not_found" THEN Raise("CertomancerObjectNotFoundError")
    ELSE IF pki_arch.fault = "service_error" THEN Raise("CertomancerServiceError")
    ELSE IF cert_label = None
    THEN Return([asn1 |-> "Certificate", label |-> label, content |-> <<"ca">>])
    ELSE IF cert_label \in pki_arch.issued[label]
    THEN Return([asn1 |-> "Certificate", label |-> label, content |-> cert_label])
    ELSE Return(NoCertificate)

\* ----------------------------------------------------------- asn1crypto, pem

\* Asn1Value.load(data): the decoded request, ValueError for bytes that are
\* no encoding of the class.
load(cls, data) == IF data.asn1 = cls THEN Return(data) ELSE Raise("ValueError")

\* Asn1Value.dump(): the DER bytes of the value.
dump(value) == [encoding |-> "DER", of |-> value]

\* pem.armor(type_name, der_bytes)
armor(type_name, data) == [encoding |-> "PEM", type_name |-> type_name, of |-> data.of]

\* ------------------------------------------------------------ werkzeug HTTP

Response(data, mimetype) == [status |-> 200, mimetype |-> mimetype, data |-> data]

HTTPExceptions == {"NotFound", "InternalServerError", "MethodNotAllowed"}

\* An HTTPException is itself the response carrying its code.
HTTPException(exc) ==
    [status |-> CASE exc = "NotFound" -> 404
                  [] exc = "InternalServerError" -> 500
                  [] exc = "MethodNotAllowed" -> 405,
     mimetype |-> "text/html", data |-> exc]

\* ------------------------------------------------------------------ Animator

\* What a method hands back: its outcome, the collaborator calls it made and
\* the object after the call.
Result(out, calls, self) == [out |-> out, calls |-> calls, self |-> self]

Animator(pki_arch, at) ==
    [pki_arch |-> pki_arch, fixed_time |-> at,
     url_map |-> service_rules(pki_arch.service_registry)]

\* at_time that keeps the first clock reading as the fixed time.
at_time_cached(self, clock) ==
    LET time == IF self.fixed_time # None THEN self.fixed_time[1] ELSE clock
    IN [time |-> time, self |-> [self EXCEPT !.fixed_time = Some(time)]]

at_time(self, clock) ==
    [time |-> IF self.fixed_time # None THEN self.fixed_time[1] ELSE clock,
     self |-> self]

serve_ocsp_response(self, request, label, clock) ==
    LET t == at_time(self, clock)
        ocsp_resp == summon_responder(t.self.pki_arch, label, Some(t.time))
        calls == << Called("summon_responder", label, Some(t.time), None, None,
                            ocsp_resp.exc) >>
        req == load("OCSPRequest", request.data)
        response == build_ocsp_response(ocsp_resp.val, req.val)
        calls2 == Append(calls, Called("build_ocsp_response", label, None, None, None,
                                        response.exc))
    IN IF ocsp_resp.exc # Ok THEN Result(ocsp_resp, calls, t.self)
       ELSE IF req.exc # Ok THEN Result(req, calls, t.self)
       ELSE IF response.exc # Ok THEN Result(response, calls2, t.self)
       ELSE Result(Return(Response(dump(response.val), "application/ocsp-response")),
                   calls2, t.self)

serve_timestamp_response(self, request, label, clock) ==
    LET t == at_time(self, clock)
        tsa == summon_timestamper(t.self.pki_arch, label, Some(t.time))
        calls == << Called("summon_timestamper", label, Some(t.time), None, None,
                            tsa.exc) >>
        req == load("TimeStampReq", request.data)
        response == request_tsa_response(tsa.val, req.val)
        calls2 == Append(calls, Called("request_tsa_response", label, None, None, None,
                                        response.exc))
    IN IF tsa.exc # Ok THEN Result(tsa, calls, t.self)
       ELSE IF req.exc # Ok THEN Result(req, calls, t.self)
       ELSE IF response.exc # Ok THEN Result(response, calls2, t.self)
       ELSE Result(Return(Response(dump(response.val), "application/timestamp-reply")),
                   calls2, t.self)

\* serve_crl whose else branch serves DER instead of raising NotFound.
serve_crl_any_extension(self, label, crl_no, extension, clock) ==
    LET use_pem == extension = <<"crl", ".", "pem">>
        mime == IF use_pem THEN "application/x-pem-file" ELSE "application/pkix-crl"
        t == at_time(self, clock)
        after == IF crl_no # None THEN self ELSE t.self
        crl == IF crl_no # None
               THEN get_crl(self.pki_arch, label, None, crl_no)
               ELSE get_crl(t.self.pki_arch, label, Some(t.time), None)
        calls == IF crl_no # None
                 THEN << Called("get_crl", label, None, crl_no, None, crl.exc) >>
                 ELSE << Called("get_crl", label, Some(t.time), None, None, crl.exc) >>
        data == IF use_pem THEN armor("X509 CRL", dump(crl.val)) ELSE dump(crl.val)
    IN IF crl.exc # Ok THEN Result(crl, calls, after)
       ELSE Result(Return(Response(data, mime)), calls, after)

\* serve_crl that fetches the CRL by the evaluation time whatever crl_no is.
serve_crl_by_time(self, label, crl_no, extension, clock) ==
    LET known == extension \in { <<"crl", ".", "pem">>, <<"crl">> }
        use_pem == extension = <<"crl", ".", "pem">>
        mime == IF use_pem THEN "application/x-pem-file" ELSE "application/pkix-crl"
        t == at_time(self, clock)
        crl == get_crl(t.self.pki_arch, label, Some(t.time), None)
        calls == << Called("get_crl", label, Some(t.time), None, None, crl.exc) >>
        data == IF use_pem THEN armor("X509 CRL", dump(crl.val)) ELSE dump(crl.val)
    IN IF ~known THEN Result(Raise("NotFound"), << >>, self)
       ELSE IF crl.exc # Ok THEN Result(crl, calls, t.self)
       ELSE Result(Return(Response(data, mime)), calls, t.self)

serve_crl(self, label, crl_no, extension, clock) ==
    LET known == extension \in { <<"crl", ".", "pem">>, <<"crl">> }
        use_pem == extension = <<"crl", ".", "pem">>
        mime == IF use_pem THEN "application/x-pem-file" ELSE "application/pkix-crl"
        t == at_time(self, clock)
        after == IF crl_no # None THEN self ELSE t.self
        crl == IF crl_no # None
               THEN get_crl(self.pki_arch, label, None, crl_no)
               ELSE get_crl(t.self.pki_arch, label, Some(t.time), None)
        calls == IF crl_no # None
                 THEN << Called("get_crl", label, None, crl_no, None, crl.exc) >>
                 ELSE << Called("get_crl", label, Some(t.time), None, None, crl.exc) >>
        data == IF use_pem THEN armor("X509 CRL", dump(crl.val)) ELSE dump(crl.val)
    IN IF ~known THEN Result(Raise("NotFound"), << >>, self)
       ELSE IF crl.exc # Ok THEN Result(crl, calls, after)
       ELSE Result(Return(Response(data, mime)), calls, after)

serve_cert(self, label, cert_label, extension) ==
    LET known == extension \in { <<"cert", ".", "pem">>, <<"crt">> }
        use_pem == extension = <<"cert", ".", "pem">>
        mime == IF use_pem THEN "application/x-pem-file" ELSE "application/pkix-cert"
        cert == get_cert_from_repo(self.pki_arch, label, cert_label)
        calls == << Called("get_cert_from_repo", label, None, None, cert_label,
                            IF cert.exc = Ok /\ cert.val = NoCertificate
                            THEN "none" ELSE cert.exc) >>
        data == IF use_pem THEN armor("certificate", dump(cert.val)) ELSE dump(cert.val)
    IN IF ~known THEN Result(Raise("NotFound"), << >>, self)
       ELSE IF cert.exc # Ok THEN Result(cert, calls, self)
       ELSE IF cert.val = NoCertificate THEN Result(Raise("NotFound"), calls, self)
       ELSE Result(Return(Response(data, mime)), calls, self)

\* The handler of the matched endpoint (the body of dispatch's try block
\* after adapter.match()).
handle(self, request, m, clock) ==
    LET endpoint == m.endpoint
        values == m.values
    IN CASE endpoint.service_type = ServiceType_OCSP ->
              serve_ocsp_response(self, request, endpoint.label, clock)
         [] endpoint.service_type = ServiceType_TSA ->
              serve_timestamp_response(self, request, endpoint.label, clock)
         [] endpoint.service_type = ServiceType_CRL_REPO ->
              serve_crl(self, endpoint.label, values.crl_no, values.extension, clock)
         [] endpoint.service_type = ServiceType_CERT_REPO ->
              serve_cert(self, endpoint.label, values.cert_label, values.extension)
         [] OTHER -> Result(Raise("InternalServerError"), << >>, self)

\* translate without the except clause for CertomancerServiceError.
translate_no_service_error(out) ==
    IF out.exc = "CertomancerObjectNotFoundError" THEN Return(HTTPException("NotFound"))
    ELSE IF out.exc \in HTTPExceptions THEN Return(HTTPException(out.exc))
    ELSE out

\* The except clauses of dispatch: the two domain errors become NotFound
\* and InternalServerError responses, an HTTPException is returned as the
\* response it is, anything else keeps propagating.
translate(out) ==
    IF out.exc = "CertomancerObjectNotFoundError" THEN Return(HTTPException("NotFound"))
    ELSE IF out.exc = "CertomancerServiceError"
    THEN Return(HTTPException("InternalServerError"))
    ELSE IF out.exc \in HTTPExceptions THEN Return(HTTPException(out.exc))
    ELSE out

\* dispatch from the outcome m of adapter.match() on.
dispatch_matched(self, request, m, clock) ==
    LET h == handle(self, request, m.val, clock)
    IN IF m.exc # Ok
       THEN Result(translate(m), << >>, self)
       ELSE Result(translate(h.out), h.calls, h.self)

dispatch(self, request, clock) ==
    dispatch_matched(self, request,
                     match(self.url_map, request.method, request.path), clock)

\* -------------------------------------------------------------------- inputs

Url(kind, label) == <<"/", kind, "/", label>>

Info(kind, label) == [label |-> label, internal_url |-> Url(kind, label)]

RepoInfo(label, publish) ==
    [label |-> label, internal_url |-> Url("certs", label),
     publish_issued_certs |-> publish]

\* One OCSP responder, one TSA, one CRL repository, and two certificate
\* repositories: root publishes the certificates it issued, interm does not.
MainCatalog ==
    [ocsp |-> << Info("ocsp", "interm") >>,
     tsa |-> << Info("tsa", "tsa") >>,
     crl |-> << Info("crl", "interm") >>,
     certs |-> << RepoInfo("root", TRUE), RepoInfo("interm", FALSE) >>]

Faults == {"none", "not_found", "service_error"}

Issued == [root |-> { <<"interm">> }, interm |-> { <<"signer">> }]

Arch(catalog, fault) ==
    [service_registry |-> catalog, fault |-> fault, crl_numbers |-> Times,
     issued |-> Issued]

Body(asn1) == [asn1 |-> asn1]

Req(method, path, data) == [method |-> method, path |-> path, data |-> data]

Get(path) == Req("GET", path, Body("empty"))

OcspUrl == Url("ocsp", "interm")

TsaUrl == Url("tsa", "tsa")

CrlUrl == Url("crl", "interm")

CrlTails ==
    { <<"/", "latest", ".", "crl">>, <<"/", "latest", ".", "crl", ".", "pem">>,
      <<"/", "latest", ".", "crt">>,
      <<"/", "archive-", "1", ".", "crl">>, <<"/", "archive-", "1", ".", "crl", ".", "pem">>,
      <<"/", "archive-", "0", "2", ".", "crl">>, <<"/", "archive-", "9", ".", "crl">>,
      <<"/", "archive-", "1", ".", "crt">>, <<"/", "archive-", "x", ".", "crl">> }

CertTails ==
    { <<"/", "ca", ".", "crt">>, <<"/", "ca", ".", "cert", ".", "pem">>,
      <<"/", "ca", ".", "crl">>,
      <<"/", "issued", "/", "interm", ".", "crt">>,
      <<"/", "issued", "/", "interm", ".", "cert", ".", "pem">>,
      <<"/", "issued", "/", "signer", ".", "crt">>,
      <<"/", "issued", "/", "signer", ".", "cert", ".", "pem">>,
      <<"/", "issued", "/", "signer", ".", "crl">> }

\* The requests of a run address one kind of service.
PostRequests ==
    { Req("POST", OcspUrl, Body("OCSPRequest")), Req("POST", OcspUrl, Body("garbage")),
      Get(OcspUrl),
      Req("POST", TsaUrl, Body("TimeStampReq")), Req("POST", TsaUrl, Body("garbage")),
      Get(TsaUrl),
      Get(<<"/", "ocsp", "/", "nobody">>) }

CrlRequests ==
    { Req("POST", CrlUrl \o <<"/", "latest", ".", "crl">>, Body("empty")),
      Req("HEAD", CrlUrl \o <<"/", "latest", ".", "crl">>, Body("empty")) }
    \cup { Get(CrlUrl \o tail) : tail \in CrlTails }

CertRequests(label) ==
    { Req("POST", Url("certs", label) \o <<"/", "ca", ".", "crt">>, Body("empty")) }
    \cup { Get(Url("certs", label) \o tail) : tail \in CertTails }

Workloads == { PostRequests, CrlRequests, CertRequests("root"), CertRequests("interm") }

\* ---------------------------------------------------------------- the threads

Idle == [pc |-> "idle", req |-> None, m |-> None, out |-> None, calls |-> << >>,
         inst |-> None]

\* ------------------------------------- Spec: concurrent calls of one Animator

Init ==
    /\ pki \in { Arch(MainCatalog, fault) : fault \in Faults }
    /\ env_ok = TRUE
    /\ heap \in { << Animator(pki, at) >> : at \in {None, Some(MaxTime)} }
    /\ app_animator = None
    /\ workload \in Workloads
    /\ thr = [t \in Threads |-> Idle]
    /\ served_by = {}
    /\ load_attempts = 0
    /\ load_failures = 0

\* Animator.__call__ up to adapter.match() in dispatch.
Begin(t) ==
    /\ thr[t].pc = "idle"
    /\ \E req \in workload :
         thr' = [thr EXCEPT ![t] =
                   [Idle EXCEPT !.pc = "matched", !.req = req, !.inst = 1,
                                !.m = match(heap[1].url_map, req.method, req.path)]]
    /\ UNCHANGED <<pki, env_ok, heap, app_animator, workload, served_by,
                   load_attempts, load_failures>>

\* The rest of dispatch: the handler and the except clauses.  clock is what
\* datetime.now() returns should the handler read it.
Handle(t) ==
    /\ thr[t].pc = "matched"
    /\ \E clock \in Times :
       LET r == dispatch_matched(heap[thr[t].inst], thr[t].req, thr[t].m, clock)
       IN /\ thr' = [thr EXCEPT ![t].pc = "done", ![t].out = r.out,
                                ![t].calls = r.calls]
          /\ heap' = [heap EXCEPT ![thr[t].inst] = r.self]
          /\ served_by' = served_by \cup {thr[t].inst}
    /\ UNCHANGED <<pki, env_ok, app_animator, workload, load_attempts,
                   load_failures>>

\* The response (or the exception) leaves Animator.__call__.
Finish(t) ==
    /\ thr[t].pc \in {"done", "raised"}
    /\ thr' = [thr EXCEPT ![t] = Idle]
    /\ UNCHANGED <<pki, env_ok, heap, app_animator, workload, served_by,
                   load_attempts, load_failures>>

Next == \E t \in Threads : Begin(t) \/ Handle(t) \/ Finish(t)

Spec == Init /\ [][Next]_vars

\* ------------------------- SpecLazy: concurrent calls of the LazyAnimator app

InitLazy ==
    /\ pki = Arch(MainCatalog, "none")
    /\ env_ok \in BOOLEAN
    /\ heap = << >>
    /\ app_animator = None
    /\ workload = PostRequests
    /\ thr = [t \in Threads |-> Idle]
    /\ served_by = {}
    /\ load_attempts = 0
    /\ load_failures = 0

\* LazyAnimator._load, the test of self.animator: return when one is bound,
\* go on to initialize otherwise.
LoadCheck(t) ==
    /\ thr[t].pc = "idle"
    /\ IF app_animator # None
       THEN /\ thr' = [thr EXCEPT ![t].pc = "call"]
            /\ UNCHANGED load_attempts
       ELSE /\ load_attempts < MaxAttempts
            /\ thr' = [thr EXCEPT ![t].pc = "load"]
            /\ load_attempts' = load_attempts + 1
    /\ UNCHANGED <<pki, env_ok, heap, app_animator, workload, served_by,
                   load_failures>>

\* LazyAnimator._load, the initialization: the environment and the config
\* are read (raising when they are missing), an Animator is constructed and
\* bound to self.animator.
Load(t) ==
    /\ thr[t].pc = "load"
    /\ IF env_ok
       THEN /\ heap' = Append(heap, Animator(pki, None))
            /\ app_animator' = Some(Len(heap) + 1)
            /\ thr' = [thr EXCEPT ![t].pc = "call"]
            /\ UNCHANGED load_failures
       ELSE /\ thr' = [thr EXCEPT ![t].pc = "raised", ![t].out = Raise("KeyError")]
            /\ load_failures' = load_failures + 1
            /\ UNCHANGED <<heap, app_animator>>
    /\ UNCHANGED <<pki, env_ok, workload, served_by, load_attempts>>

\* LazyAnimator.__call__ after _load: self.animator is read and called.
Call(t) ==
    /\ thr[t].pc = "call"
    /\ \E req \in workload, clock \in Times :
         LET inst == app_animator[1]
             r == dispatch(heap[inst], req, clock)
         IN /\ thr' = [thr EXCEPT ![t] = [pc |-> "done", req |-> req, m |-> None,
                                          out |-> r.out, calls |-> r.calls,
                                          inst |-> inst]]
            /\ heap' = [heap EXCEPT ![inst] = r.self]
            /\ served_by' = served_by \cup {inst}
    /\ UNCHANGED <<pki, env_ok, app_animator, workload, load_attempts,
                   load_failures>>

NextLazy == \E t \in Threads : LoadCheck(t) \/ Load(t) \/ Call(t) \/ Finish(t)

SpecLazy == InitLazy /\ [][NextLazy]_vars

\* ------------------ SpecRules: an Animator constructed over any service catalog

ServiceLabels == {"root", "interm", "leaf"}

\* The lists of at most MaxPerKind services with distinct labels.
LabelLists ==
    { l \in UNION { [1..n -> ServiceLabels] : n \in 0..MaxPerKind } :
        \A i, j \in 1..Len(l) : i # j => l[i] # l[j] }

\* One list per set of labels.
OrderedLists ==
    { CHOOSE l \in LabelLists : { l[i] : i \in 1..Len(l) } = labels :
        labels \in { labels \in SUBSET ServiceLabels : Cardinality(labels) <= MaxPerKind } }

Catalogs ==
    { [ocsp |-> [i \in 1..Len(o) |-> Info("ocsp", o[i])],
       tsa |-> [i \in 1..Len(t) |-> Info("tsa", t[i])],
       crl |-> [i \in 1..Len(c) |-> Info("crl", c[i])],
       certs |-> [i \in 1..Len(r) |-> RepoInfo(r[i], p[i])]] :
        o \in OrderedLists, t \in OrderedLists, c \in LabelLists,
        r \in LabelLists, p \in [1..MaxPerKind -> BOOLEAN] }

InitRules ==
    /\ pki \in { Arch(catalog, "none") : catalog \in Catalogs }
    /\ env_ok = TRUE
    /\ heap = << >>
    /\ app_animator = None
    /\ workload = {}
    /\ thr = [t \in Threads |-> Idle]
    /\ served_by = {}
    /\ load_attempts = 0
    /\ load_failures = 0

\* Animator.__init__ on the architecture.
Construct ==
    /\ heap = << >>
    /\ heap' = << Animator(pki, None) >>
    /\ UNCHANGED <<pki, env_ok, app_animator, workload, thr, served_by,
                   load_attempts, load_failures>>

NextRules == Construct

SpecRules == InitRules /\ [][NextRules]_vars

\* -------------------------------------------------------------------- claims

Done(t) == thr[t].pc = "done"

\* dispatch returned a response (nothing propagated out of it).
Returned(t) == Done(t) /\ thr[t].out.exc = Ok

Status(t) == thr[t].out.val.status

\* adapter.match() gave an endpoint for the thread's request.
Matched(t) == thr[t].pc \in {"matched", "done"} /\ thr[t].m.exc = Ok

MatchedKind(t, kind) == Matched(t) /\ thr[t].m.val.endpoint.service_type = kind

\* The last collaborator call of the thread's request ended with this outcome.
Signalled(t, outcome) ==
    /\ Done(t)
    /\ thr[t].calls # << >>
    /\ thr[t].calls[Len(thr[t].calls)].outcome = outcome

IsPrefix(p, q) == Len(p) <= Len(q) /\ SubSeq(q, 1, Len(p)) = p

\* The rules of the table that match the path, under any method.
PathRules(url_map, path) ==
    { i \in 1..Len(url_map) : MatchParts(url_map[i].rule, path) # {} }

\* C1: concurrent first requests initialize the architecture exactly once
\* (one Animator is ever constructed) and every caller, then and later, is
\* served by that one Animator.
C1_InitializedOnce ==
    /\ Len(heap) <= 1
    /\ Cardinality(served_by) <= 1

\* C2: whenever the collaborator signals "object not found" dispatch returns
\* a 404 response, and whenever it signals "service error" dispatch returns a
\* 500 response, for each of the four handlers.
C2_DomainErrorsTranslated ==
    \A t \in Threads :
        /\ Signalled(t, "CertomancerObjectNotFoundError")
              => Returned(t) /\ Status(t) = 404
        /\ Signalled(t, "CertomancerServiceError")
              => Returned(t) /\ Status(t) = 500

C2_Witness ==
    \E t \in Threads :
        /\ MatchedKind(t, ServiceType_TSA)
        /\ Signalled(t, "CertomancerServiceError")
        /\ Returned(t) /\ Status(t) = 500

\* C3: no exception propagates out of dispatch, and an OCSP or TSA request
\* for a configured label whose body does not decode is answered with 500.
C3_EveryFailureIs500 ==
    \A t \in Threads :
        /\ Done(t) => thr[t].out.exc = Ok
        /\ ( /\ Done(t)
             /\ MatchedKind(t, ServiceType_OCSP) \/ MatchedKind(t, ServiceType_TSA)
             /\ thr[t].req.data = Body("garbage")
             /\ ~Signalled(t, "CertomancerObjectNotFoundError") )
              => Returned(t) /\ Status(t) = 500

C5_NoRetryAfterFailure ==
    [][load_failures > 0 => load_attempts' = load_attempts]_vars

\* C6: the captured extension alone selects encoding and content type.  On a
\* CRL route 'crl' gives DER as application/pkix-crl, 'crl.pem' gives PEM
\* armor "X509 CRL" as application/x-pem-file; on a certificate route 'crt'
\* gives DER as application/pkix-cert, 'cert.pem' gives PEM armor
\* "certificate" as application/x-pem-file; any other extension gives 404
\* without asking the collaborator.
C6_ExtensionSelectsEncoding ==
    \A t \in Threads :
        LET extension == thr[t].m.val.values.extension
            crl_route == MatchedKind(t, ServiceType_CRL_REPO)
            der_ext == IF crl_route THEN <<"crl">> ELSE <<"crt">>
            pem_ext == IF crl_route THEN <<"crl", ".", "pem">> ELSE <<"cert", ".", "pem">>
            der_mime == IF crl_route THEN "application/pkix-crl"
                        ELSE "application/pkix-cert"
            armor_name == IF crl_route THEN "X509 CRL" ELSE "certificate"
            response == thr[t].out.val
        IN ( /\ Done(t)
             /\ crl_route \/ MatchedKind(t, ServiceType_CERT_REPO) )
           => /\ extension \notin {der_ext, pem_ext}
                   => /\ Returned(t) /\ Status(t) = 404
                      /\ thr[t].calls = << >>
              /\ extension \in {der_ext, pem_ext}
                   => /\ Signalled(t, Ok) <=> (Returned(t) /\ Status(t) = 200)
                      /\ Signalled(t, Ok) /\ extension = der_ext
                           => /\ response.mimetype = der_mime
                              /\ response.data.encoding = "DER"
                      /\ Signalled(t, Ok) /\ extension = pem_ext
                           => /\ response.mimetype = "application/x-pem-file"
                              /\ response.data.encoding = "PEM"
                              /\ response.data.type_name = armor_name

C6_Witness ==
    \E t, u \in Threads :
        /\ MatchedKind(t, ServiceType_CERT_REPO)
        /\ thr[t].m.val.values.extension = <<"cert", ".", "pem">>
        /\ Returned(t) /\ Status(t) = 200
        /\ thr[t].out.val.data.encoding = "PEM"
        /\ MatchedKind(u, ServiceType_CERT_REPO)
        /\ thr[u].m.val.values.extension = <<"crl">>
        /\ Returned(u) /\ Status(u) = 404

\* The certificate repositories that do not publish the certificates issued.
CaOnlyRepos ==
    { pki.service_registry.certs[i] : i \in
        { i \in 1..Len(pki.service_registry.certs) :
            ~pki.service_registry.certs[i].publish_issued_certs } }

\* C7: on a certificate repository that does not publish issued
\* certificates every GET of <cert-url>/issued/<label>.<ext> is answered
\* with 404, and get_cert_from_repo is never called for that repository with
\* a cert_label other than None.
C7_IssuedNotPublished ==
    \A t \in Threads : \A repo \in CaOnlyRepos :
        /\ ( /\ Done(t)
             /\ thr[t].req.method = "GET"
             /\ IsPrefix(repo.internal_url \o <<"/", "issued", "/">>, thr[t].req.path) )
              => Returned(t) /\ Status(t) = 404
        /\ \A k \in 1..Len(thr[t].calls) :
              ( /\ thr[t].calls[k].fn = "get_cert_from_repo"
                /\ thr[t].calls[k].label = repo.label )
               => thr[t].calls[k].cert_label = None

C7_Witness ==
    \E t \in Threads : \E repo \in CaOnlyRepos :
        /\ thr[t].req = Get(repo.internal_url \o <<"/", "issued", "/", "signer", ".", "crt">>)
        /\ <<"signer">> \in pki.issued[repo.label]
        /\ pki.fault = "none"
        /\ Returned(t) /\ Status(t) = 404

\* The rules of the table bound to an endpoint.
RulesOf(url_map, endpoint) ==
    { i \in 1..Len(url_map) : url_map[i].endpoint = endpoint }

\* The configured service instances an endpoint descriptor names.
InstancesOf(services, endpoint) ==
    { <<kind, i>> : kind \in {ServiceType_OCSP} , i \in
          { i \in 1..Len(services.ocsp) :
              endpoint = Endpoint(ServiceType_OCSP, services.ocsp[i].label) } }
    \cup { <<kind, i>> : kind \in {ServiceType_TSA} , i \in
          { i \in 1..Len(services.tsa) :
              endpoint = Endpoint(ServiceType_TSA, services.tsa[i].label) } }
    \cup { <<kind, i>> : kind \in {ServiceType_CRL_REPO} , i \in
          { i \in 1..Len(services.crl) :
              endpoint = Endpoint(ServiceType_CRL_REPO, services.crl[i].label) } }
    \cup { <<kind, i>> : kind \in {ServiceType_CERT_REPO} , i \in
          { i \in 1..Len(services.certs) :
              endpoint = Endpoint(ServiceType_CERT_REPO, services.certs[i].label) } }

\* The name of the converter placeholders of a rule string.
Placeholders(rule) == { rule[k].arg : k \in { k \in 1..Len(rule) : rule[k].conv # "lit" } }

\* C8: the route table holds one POST route per OCSP responder and per TSA;
\* two GET routes per CRL repository on one descriptor, the latest one with
\* crl_no defaulted to None and the archive one capturing an integer crl_no;
\* per certificate repository one GET route for the CA certificate with
\* cert_label defaulted to None, and a route for issued certificates on the
\* same descriptor exactly if the repository publishes them; and every
\* descriptor of the table names exactly one configured service instance.
C8_RouteTable ==
    heap # << >> =>
      LET url_map == heap[1].url_map
          services == pki.service_registry
          gets(e) == { i \in RulesOf(url_map, e) : "GET" \in url_map[i].methods
                                                   /\ "POST" \notin url_map[i].methods }
      IN /\ \A k \in 1..Len(services.ocsp) :
               \E i \in 1..Len(url_map) :
                  /\ RulesOf(url_map, Endpoint(ServiceType_OCSP, services.ocsp[k].label)) = {i}
                  /\ url_map[i].methods = {"POST"}
                  /\ url_map[i].rule = Lits(services.ocsp[k].internal_url)
         /\ \A k \in 1..Len(services.tsa) :
               \E i \in 1..Len(url_map) :
                  /\ RulesOf(url_map, Endpoint(ServiceType_TSA, services.tsa[k].label)) = {i}
                  /\ url_map[i].methods = {"POST"}
                  /\ url_map[i].rule = Lits(services.tsa[k].internal_url)
         /\ \A k \in 1..Len(services.crl) :
               LET e == Endpoint(ServiceType_CRL_REPO, services.crl[k].label)
               IN /\ gets(e) = RulesOf(url_map, e)
                  /\ \E i, j \in gets(e) :
                       /\ i # j
                       /\ gets(e) = {i, j}
                       /\ url_map[i].defaults = [crl_no |-> None]
                       /\ Placeholders(url_map[i].rule) = {"extension"}
                       /\ url_map[j].defaults = NoDefaults
                       /\ Placeholders(url_map[j].rule) = {"crl_no", "extension"}
                       /\ \E n \in 1..Len(url_map[j].rule) :
                            url_map[j].rule[n] = Conv("int", "crl_no")
         /\ \A k \in 1..Len(services.certs) :
               LET e == Endpoint(ServiceType_CERT_REPO, services.certs[k].label)
                   ca == { i \in gets(e) : url_map[i].defaults = [cert_label |-> None] }
                   issued == { i \in gets(e) : /\ url_map[i].defaults = NoDefaults
                                                /\ "cert_label" \in Placeholders(url_map[i].rule) }
               IN /\ gets(e) = RulesOf(url_map, e)
                  /\ gets(e) = ca \cup issued
                  /\ Cardinality(ca) = 1
                  /\ Cardinality(issued) =
                       IF services.certs[k].publish_issued_certs THEN 1 ELSE 0
         /\ \A i \in 1..Len(url_map) :
               Cardinality(InstancesOf(services, url_map[i].endpoint)) = 1

C8_Witness ==
    /\ heap # << >>
    /\ Len(pki.service_registry.ocsp) = 1
    /\ Len(pki.service_registry.tsa) = 2
    /\ Len(pki.service_registry.crl) = 2
    /\ Len(pki.service_registry.certs) = 2
    /\ pki.service_registry.certs[1].publish_issued_certs
    /\ ~pki.service_registry.certs[2].publish_issued_certs
    /\ Len(heap[1].url_map) = 10

\* C9: a GET of archive-<N>.<ext> is answered from the CRL numbered N alone:
\* the one collaborator call is get_crl(label, number=N) with no evaluation
\* time, the response is the CRL numbered N in the encoding of the extension
\* whatever the clock and the fixed time are, and a number the collaborator
\* does not know gives 404 (the collaborator failing in no other way); the
\* latest.<ext> route is the one that calls get_crl with the evaluation time.
C9_ArchiveByNumber ==
    \A t \in Threads :
        ( /\ Done(t)
          /\ MatchedKind(t, ServiceType_CRL_REPO)
          /\ thr[t].m.val.values.extension \in { <<"crl">>, <<"crl", ".", "pem">> } )
        => LET label == thr[t].m.val.endpoint.label
               crl_no == thr[t].m.val.values.crl_no
               pem == thr[t].m.val.values.extension = <<"crl", ".", "pem">>
               crl == [asn1 |-> "CertificateList", label |-> label, content |-> crl_no[1]]
               eval == IF heap[1].fixed_time # None THEN heap[1].fixed_time
                       ELSE thr[t].calls[1].at_time
           IN /\ Len(thr[t].calls) = 1
              /\ thr[t].calls[1].fn = "get_crl"
              /\ thr[t].calls[1].label = label
              /\ crl_no # None =>
                   /\ thr[t].calls[1].at_time = None
                   /\ thr[t].calls[1].number = crl_no
                   /\ (pki.fault = "none" /\ crl_no[1] \in pki.crl_numbers)
                        => thr[t].out =
                             Return([status |-> 200,
                                     mimetype |-> IF pem THEN "application/x-pem-file"
                                                  ELSE "application/pkix-crl",
                                     data |-> IF pem
                                              THEN [encoding |-> "PEM",
                                                    type_name |-> "X509 CRL", of |-> crl]
                                              ELSE [encoding |-> "DER", of |-> crl]])
                   /\ (pki.fault = "none" /\ crl_no[1] \notin pki.crl_numbers)
                        => Returned(t) /\ Status(t) = 404
              /\ crl_no = None =>
                   /\ thr[t].calls[1].number = None
                   /\ thr[t].calls[1].at_time = eval
                   /\ eval[1] \in Times

\* CRL number 1 is served although the evaluation time is another.
C9_Witness ==
    \E t \in Threads :
        /\ Done(t)
        /\ MatchedKind(t, ServiceType_CRL_REPO)
        /\ thr[t].m.val.values.crl_no = Some(1)
        /\ Returned(t) /\ Status(t) = 200
        /\ thr[t].out.val.data.of.content = 1
        /\ heap[1].fixed_time # None
        /\ heap[1].fixed_time[1] # 1

\* C10: no step of any request changes an Animator that was constructed:
\* its route table, its architecture and its fixed time stay as they are.
C10_AnimatorUnchanged ==
    [][\A i \in 1..Len(heap) :
          /\ Len(heap') >= i
          /\ heap'[i].url_map = heap[i].url_map
          /\ heap'[i].pki_arch = heap[i].pki_arch
          /\ heap'[i].fixed_time = heap[i].fixed_time]_vars

\* Two requests in flight at once have ended, one with 200 and one with 404,
\* on an Animator that reads the clock.
C10_Witness ==
    \E t, u \in Threads :
        /\ t # u
        /\ Returned(t) /\ Status(t) = 200
        /\ Returned(u) /\ Status(u) = 404
        /\ Len(thr[t].calls) > 0 /\ thr[t].calls[1].at_time # None
        /\ heap[1].fixed_time = None
        /\ heap[1] = Animator(pki, None)

=============================================================================
